---- MODULE Spec2Model ----
(***************************************************************************)
(* Model of the SuperAgent pipeline: LLM.py (orchestrator), Legislacao.py  *)
(* (Corpus Builder) and BuscaFaiss.py (Retriever).                         *)
(*                                                                         *)
(* Texts are sequences of tokens.  A JSON text is a token sequence in      *)
(* which "[" "]" "{" "}" are the structural characters, KeyTokens stand    *)
(* for `"key":`, RowTokens for a flat object of string fields, "s" for a   *)
(* truthy scalar, "z" for a falsy scalar (0, "", null, false) and "x" for  *)
(* text that is not JSON (the portal's framing).  Separating commas are    *)
(* not represented.                                                        *)
(***************************************************************************)
EXTENDS Integers, Sequences, FiniteSets, TLC

\* ------------------------------------------------------------------ bounds
MaxRows == 5        \* rows of one ResultRows array offered by the portal
MaxBodyLen == 3     \* length of the exhaustively enumerated portal bodies
MaxPad == 1         \* whitespace characters around a term of the LLM
MaxRuns == 2        \* pipeline runs sharing the working directory
MaxDist == 2        \* distinct distance values of a search
MaxConcRows == 2    \* passages of a Corpus Builder that runs next to another one

\* ------------------------------------------------------- program constants
K == 5

\* ---------------------------------------------------------------- helpers
SeqsUpTo(S, n) == UNION {[1..m -> S] : m \in 0..n}

\* Python slice s[a:b] with 0-based a (inclusive) and b (exclusive), a, b >= 0
Slice(s, a, b) ==
    LET hi == IF b > Len(s) THEN Len(s) ELSE b
    IN  IF a >= hi THEN <<>> ELSE [i \in 1..(hi - a) |-> s[a + i]]

\* str.find: 0-based position of the first occurrence, -1 when absent
Find(s, c) ==
    IF \E i \in 1..Len(s) : s[i] = c
    THEN (CHOOSE i \in 1..Len(s) : s[i] = c /\ \A j \in 1..(i-1) : s[j] # c) - 1
    ELSE -1

\* str.rfind: 0-based position of the last occurrence, -1 when absent
RFind(s, c) ==
    IF \E i \in 1..Len(s) : s[i] = c
    THEN (CHOOSE i \in 1..Len(s) : s[i] = c /\ \A j \in (i+1)..Len(s) : s[j] # c) - 1
    ELSE -1

\* ------------------------------------------------------------ JSON values
\* Every value has the same four fields so that values compare.
Scalar(x) == [t |-> "scalar", keys |-> <<>>, vals |-> <<>>, s |-> x]
ListNode(items) == [t |-> "list", keys |-> <<>>, vals |-> items, s |-> ""]
DictNode(ks, vs) == [t |-> "dict", keys |-> ks, vals |-> vs, s |-> ""]
NoneNode == [t |-> "none", keys |-> <<>>, vals |-> <<>>, s |-> ""]

KeyTokens == {"RR", "k", "k2"}
KeyName(tok) == IF tok = "RR" THEN "ResultRows" ELSE tok

RowTokens == {"r1", "r2", "np", "nc", "ep"}
RowNode(tok) ==
    CASE tok = "r1" -> DictNode(<<"Path", "PublishingPageContentOWSHTML">>,
                                <<Scalar("p1"), Scalar("c1")>>)
      [] tok = "r2" -> DictNode(<<"Path", "PublishingPageContentOWSHTML">>,
                                <<Scalar("p2"), Scalar("c2")>>)
      [] tok = "np" -> DictNode(<<"PublishingPageContentOWSHTML">>, <<Scalar("c1")>>)
      [] tok = "nc" -> DictNode(<<"Path">>, <<Scalar("p1")>>)
      [] tok = "ep" -> DictNode(<<"Path", "PublishingPageContentOWSHTML">>,
                                <<Scalar(""), Scalar("c1")>>)

\* dict[key] = value: a repeated key keeps its first position, takes the last value
DictPut(ks, vs, key, val) ==
    IF \E i \in 1..Len(ks) : ks[i] = key
    THEN LET i == CHOOSE j \in 1..Len(ks) : ks[j] = key
         IN  [keys |-> ks, vals |-> [vs EXCEPT ![i] = val]]
    ELSE [keys |-> Append(ks, key), vals |-> Append(vs, val)]

ParseFail == [ok |-> FALSE, val |-> NoneNode, next |-> 0]

RECURSIVE ParseValue(_, _)
RECURSIVE ParseItems(_, _, _)
RECURSIVE ParseMembers(_, _, _, _)

ParseValue(toks, i) ==
    IF i > Len(toks) THEN ParseFail
    ELSE IF toks[i] = "[" THEN ParseItems(toks, i + 1, <<>>)
    ELSE IF toks[i] = "{" THEN ParseMembers(toks, i + 1, <<>>, <<>>)
    ELSE IF toks[i] \in RowTokens
         THEN [ok |-> TRUE, val |-> RowNode(toks[i]), next |-> i + 1]
    ELSE IF toks[i] = "s" THEN [ok |-> TRUE, val |-> Scalar("s"), next |-> i + 1]
    ELSE IF toks[i] = "z" THEN [ok |-> TRUE, val |-> Scalar(""), next |-> i + 1]
    ELSE ParseFail

ParseItems(toks, i, acc) ==
    IF i > Len(toks) THEN ParseFail
    ELSE IF toks[i] = "]"
         THEN [ok |-> TRUE, val |-> ListNode(acc), next |-> i + 1]
    ELSE LET r == ParseValue(toks, i)
         IN  IF r.ok THEN ParseItems(toks, r.next, Append(acc, r.val)) ELSE ParseFail

ParseMembers(toks, i, ks, vs) ==
    IF i > Len(toks) THEN ParseFail
    ELSE IF toks[i] = "}"
         THEN [ok |-> TRUE, val |-> DictNode(ks, vs), next |-> i + 1]
    ELSE IF toks[i] \in KeyTokens
         THEN LET r == ParseValue(toks, i + 1)
                  d == DictPut(ks, vs, KeyName(toks[i]), r.val)
              IN  IF r.ok THEN ParseMembers(toks, r.next, d.keys, d.vals) ELSE ParseFail
    ELSE ParseFail

\* json.loads: the whole text must be exactly one value
json_loads(toks) ==
    LET r == ParseValue(toks, 1)
    IN  IF r.ok /\ r.next = Len(toks) + 1
        THEN [ok |-> TRUE, val |-> r.val]
        ELSE [ok |-> FALSE, val |-> NoneNode]

\* Python truthiness of a parsed value
Truthy(v) ==
    CASE v.t = "none" -> FALSE
      [] v.t = "scalar" -> v.s # ""
      [] v.t = "list" -> Len(v.vals) > 0
      [] v.t = "dict" -> Len(v.keys) > 0

\* dict.get(key): NoneNode when the key is absent
DictGet(d, key) ==
    IF \E i \in 1..Len(d.keys) : d.keys[i] = key
    THEN d.vals[CHOOSE i \in 1..Len(d.keys) : d.keys[i] = key]
    ELSE NoneNode

\* ------------------------------------------------ Legislacao.py, functions
\* The text handed to json.loads: sliced from the first "[" to the last "]"
\* when both characters occur, the whole text otherwise.
TextoIsolado(texto_json) ==
    LET start == Find(texto_json, "[")
        end == RFind(texto_json, "]")
    IN  IF start # -1 /\ end # -1 THEN Slice(texto_json, start, end + 1) ELSE texto_json

\* desserializar_json_resistente answering an empty list for a text it cannot parse
desserializar_json_lista_vazia(texto_json) ==
    IF json_loads(TextoIsolado(texto_json)).ok
    THEN json_loads(TextoIsolado(texto_json))
    ELSE [ok |-> TRUE, val |-> ListNode(<<>>)]

\* ok = FALSE is the None return, after the error message was printed
desserializar_json_resistente(texto_json) == json_loads(TextoIsolado(texto_json))

\* One pass of the `for row in valor` loop from row i on; st = [rows, crash].
\* A row that is not a dictionary has no .get: the AttributeError is not caught.
RECURSIVE ExtrairRows(_, _, _)
ExtrairRows(valor, i, st) ==
    IF i > Len(valor.vals) THEN st
    ELSE LET row == valor.vals[i]
             path == DictGet(row, "Path")
             conteudo == DictGet(row, "PublishingPageContentOWSHTML")
         IN  IF row.t # "dict" THEN [st EXCEPT !.crash = TRUE]
             ELSE IF Truthy(path) /\ Truthy(conteudo)
             THEN ExtrairRows(valor, i + 1,
                      [st EXCEPT !.rows = Append(@,
                          [id |-> Len(st.rows),
                           path |-> path.s,
                           conteudo |-> <<"PATH: ", path.s, "CONTEUDO: ", conteudo.s>>])])
             ELSE ExtrairRows(valor, i + 1, st)

RECURSIVE buscar_result_rows(_, _)
RECURSIVE BuscarItems(_, _, _)
RECURSIVE BuscarElementos(_, _, _)

\* `for chave, valor in item.items()` from item i on; the first ResultRows
\* list ends the call (the return inside the loop)
BuscarItems(item, i, st) ==
    IF st.crash \/ i > Len(item.keys) THEN st
    ELSE IF item.keys[i] = "ResultRows" /\ item.vals[i].t = "list"
         THEN ExtrairRows(item.vals[i], 1, st)
         ELSE BuscarItems(item, i + 1, buscar_result_rows(item.vals[i], st))

\* `for elemento in item` from element i on
BuscarElementos(item, i, st) ==
    IF st.crash \/ i > Len(item.vals) THEN st
    ELSE BuscarElementos(item, i + 1, buscar_result_rows(item.vals[i], st))

buscar_result_rows(item, st) ==
    IF st.crash THEN st
    ELSE IF item.t = "dict" THEN BuscarItems(item, 1, st)
    ELSE IF item.t = "list" THEN BuscarElementos(item, 1, st)
    ELSE st

extrair_resultados_recursivamente(dados) ==
    buscar_result_rows(dados, [rows |-> <<>>, crash |-> FALSE])

\* MODELO_EMBEDDING.encode: one vector per text, in order
Encode(textos) == [i \in 1..Len(textos) |-> <<"emb", textos[i]>>]

processar_para_faiss(resultados) ==
    IF Len(resultados) = 0
    THEN [vetores |-> <<>>, metadados |-> <<>>]
    ELSE [vetores |-> Encode([i \in 1..Len(resultados) |-> resultados[i].conteudo]),
          metadados |-> [i \in 1..Len(resultados) |->
                            [id |-> resultados[i].id,
                             path |-> resultados[i].path,
                             conteudo |-> resultados[i].conteudo]]]

\* What __main__ computes from the response text before any file is touched:
\* etapa is the branch taken, rows the extracted passages.
ProcessarResposta(texto) ==
    LET dados_json == desserializar_json_resistente(texto)
        ext == extrair_resultados_recursivamente(dados_json.val)
    IN  IF ~dados_json.ok THEN [etapa |-> "parse_error", rows |-> <<>>]
        ELSE IF ~Truthy(dados_json.val) THEN [etapa |-> "dados_vazios", rows |-> <<>>]
        ELSE IF ext.crash THEN [etapa |-> "crash", rows |-> <<>>]
        ELSE IF Len(ext.rows) = 0 THEN [etapa |-> "sem_linhas", rows |-> <<>>]
        ELSE [etapa |-> "linhas", rows |-> ext.rows]

\* --------------------------------------------------- portal response texts
BodyAlphabet == {"[", "]", "{", "}", "k", "s", "z", "x"}
ShortBodies == SeqsUpTo(BodyAlphabet, MaxBodyLen)

RowKinds == {"r1", "np", "s"}
RowSeqs == SeqsUpTo(RowKinds, MaxRows)
SplitRowSeqs == SeqsUpTo({"r1", "np"}, MaxRows)

\* a ResultRows array at the top of the payload, and one at depth 3 inside framing
Shape1(rows) == <<"[", "{", "RR", "[">> \o rows \o <<"]", "}", "]">>
Shape2(rows) == <<"x", "[", "{", "k", "{", "k2", "{", "RR", "[">> \o rows
                    \o <<"]", "}", "}", "}", "]", "x">>
\* two ResultRows arrays: a sibling key after / before the array, two list elements
Shape3(a, b) == <<"[", "{", "RR", "[">> \o a \o <<"]", "k", "{", "RR", "[">> \o b
                    \o <<"]", "}", "}", "]">>
Shape4(a, b) == <<"[", "{", "k", "{", "RR", "[">> \o a \o <<"]", "}", "RR", "[">> \o b
                    \o <<"]", "}", "]">>
Shape5(a, b) == <<"[", "{", "RR", "[">> \o a \o <<"]", "}", "{", "RR", "[">> \o b
                    \o <<"]", "}", "]">>

StructuredBodies ==
    {Shape1(r) : r \in RowSeqs} \cup {Shape2(r) : r \in RowSeqs}
    \cup UNION {UNION {{Shape3(SubSeq(r, 1, j), SubSeq(r, j + 1, Len(r))),
                 Shape4(SubSeq(r, 1, j), SubSeq(r, j + 1, Len(r))),
                 Shape5(SubSeq(r, 1, j), SubSeq(r, j + 1, Len(r)))} :
                    j \in 0..Len(r)} : r \in SplitRowSeqs}

ExtraBodies ==
    {<<"[", "{", "RR", "[", "nc", "ep", "r1", "]", "}", "]">>,
     <<"[", "{", "RR", "[", "r1", "r2", "]", "}", "]">>,
     <<"{", "RR", "[", "r1", "]", "}">>,
     <<"[", "{", "RR", "[", "{", "k", "s", "}", "]", "}", "]">>,
     <<"[", "{", "RR", "s", "k", "[", "r1", "]", "}", "]">>,
     <<"[", "{", "RR", "[", "[", "]", "r1", "]", "}", "]">>}

PortalBodies == ShortBodies \cup StructuredBodies \cup ExtraBodies

\* the text has a "[" somewhere before a "]"
TemPar(texto) ==
    \E i \in 1..Len(texto) : \E j \in (i+1)..Len(texto) : texto[i] = "[" /\ texto[j] = "]"

\* every (bracket pair present?, whole text is JSON?, outcome) the portal
\* texts produce
Respostas ==
    {[par |-> TemPar(b), json |-> json_loads(b).ok, res |-> ProcessarResposta(b)] :
        b \in PortalBodies}


\* ------------------------------------------------------ LLM.py, functions
Whitespace == {" ", "\n"}

\* str.strip()
RECURSIVE LStrip(_)
LStrip(s) == IF Len(s) > 0 /\ Head(s) \in Whitespace THEN LStrip(Tail(s)) ELSE s
RECURSIVE RStrip(_)
RStrip(s) ==
    IF Len(s) > 0 /\ s[Len(s)] \in Whitespace THEN RStrip(SubSeq(s, 1, Len(s) - 1)) ELSE s
Strip(s) == RStrip(LStrip(s))

\* A Python value that is None or a string
None == [none |-> TRUE, s |-> <<>>]
Str(x) == [none |-> FALSE, s |-> x]
Not(v) == v.none \/ v.s = <<>>

\* A field of the LLM's JSON object: absent, present with a value that is not
\* a string (null, a number), or a string.
FieldAbsent == [tipo |-> "absent", s |-> <<>>]
FieldOther == [tipo |-> "other", s |-> <<>>]
FieldStr(x) == [tipo |-> "str", s |-> x]

\* termos.get(campo, '').strip(): ok = FALSE is the AttributeError
GetStrip(campo) ==
    CASE campo.tipo = "absent" -> [ok |-> TRUE, s |-> Strip(<<>>)]
      [] campo.tipo = "other" -> [ok |-> FALSE, s |-> <<>>]
      [] campo.tipo = "str" -> [ok |-> TRUE, s |-> Strip(campo.s)]

\* extrair_termos_gemini with the empty-term test asking for both terms to be
\* empty
extrair_termos_gemini_both(response) ==
    LET termo_curto == GetStrip(response.termo_curto)
        termo_completo == GetStrip(response.termo_completo)
    IN  IF response.tipo # "object" THEN <<None, None>>
        ELSE IF ~termo_curto.ok \/ ~termo_completo.ok THEN <<None, None>>
        ELSE IF termo_curto.s = <<>> /\ termo_completo.s = <<>> THEN <<None, None>>
        ELSE <<Str(termo_curto.s), Str(termo_completo.s)>>

\* The return value for a response of the LLM: every exception and the
\* ValueError of the empty-term test end in (None, None).
extrair_termos_gemini(response) ==
    LET termo_curto == GetStrip(response.termo_curto)
        termo_completo == GetStrip(response.termo_completo)
    IN  IF response.tipo # "object" THEN <<None, None>>
        ELSE IF ~termo_curto.ok \/ ~termo_completo.ok THEN <<None, None>>
        ELSE IF termo_curto.s = <<>> \/ termo_completo.s = <<>> THEN <<None, None>>
        ELSE <<Str(termo_curto.s), Str(termo_completo.s)>>

\* the test of main() that lets the analysis text go to gerar_pdf
DeveGerarPdf(analise_final_markdown) ==
    Len(analise_final_markdown) > 0
    /\ ~(\E i \in 1..Len(analise_final_markdown) :
            analise_final_markdown[i] = "Erro de Analise")

\* the text analisar_resultados_gemini returns when the call raises
AnaliseFallback == <<"# ", "Erro de Analise", "txt">>

\* The return value: the text of the response, the fallback document when the
\* call raises or the response carries no text.
analisar_resultados_gemini(response) ==
    IF response.tipo = "text" THEN response.text ELSE AnaliseFallback

\* the parts interpolated into the two prompts
PromptTermos(conteudo_xml_bruto) ==
    [instrucoes |-> "termos", partes |-> <<conteudo_xml_bruto>>]
PromptAnalise(conteudo_xml_bruto, resultados_busca) ==
    [instrucoes |-> "analise", partes |-> <<>>]

\* ---------------------------------------------------- BuscaFaiss.py, search
\* the distances of the n indexed vectors to the query
Distancias(n) == [1..n -> 1..MaxDist]

\* vector u comes out before vector v: the nearer one first, vectors at the
\* same distance in ascending or in descending order of their ids
Antes(dists, desempate, u, v) ==
    \/ dists[u] < dists[v]
    \/ dists[u] = dists[v] /\ (IF desempate = "asc" THEN u < v ELSE u > v)

Ordenar(n, dists, desempate) ==
    [i \in 1..n |-> CHOOSE v \in 1..n :
        Cardinality({u \in 1..n : Antes(dists, desempate, u, v)}) = i - 1]

\* index.search(query, k) on a flat index of n vectors: the k nearest vectors
\* by ascending distance; unfilled slots carry the id -1.
IndexSearch(n, dists, desempate, k) ==
    LET ordem == Ordenar(n, dists, desempate)
    IN  [I |-> [i \in 1..k |-> IF i <= n THEN ordem[i] - 1 ELSE -1],
         D |-> [i \in 1..k |-> IF i <= n THEN dists[ordem[i]] ELSE 99]]

\* `for i in range(k)` from i on; metadados[id] raises IndexError past the end
RECURSIVE MapearResultados(_, _, _, _, _)
MapearResultados(found, metadados, k, i, acc) ==
    IF i >= k THEN [crash |-> FALSE, resultados |-> acc]
    ELSE LET id_sequencial == found.I[i + 1]
         IN  IF id_sequencial = -1
             THEN MapearResultados(found, metadados, k, i + 1, acc)
             ELSE IF id_sequencial >= Len(metadados)
             THEN [crash |-> TRUE, resultados |-> <<>>]
             ELSE MapearResultados(found, metadados, k, i + 1,
                      Append(acc, [id |-> metadados[id_sequencial + 1].id,
                                   path |-> metadados[id_sequencial + 1].path,
                                   conteudo |-> metadados[id_sequencial + 1].conteudo,
                                   rank |-> i + 1,
                                   distancia_l2 |-> found.D[i + 1]]))

\* saida_formatada: one section per result
Formatar(resultados) ==
    [j \in 1..Len(resultados) |->
        [rank |-> resultados[j].rank, fonte |-> resultados[j].path,
         distancia |-> resultados[j].distancia_l2, conteudo |-> resultados[j].conteudo]]

buscar_faiss(found, metadados, k) == MapearResultados(found, metadados, k, 0, <<>>)

\* ------------------------------------------------------------ input sets
\* what the document file holds
DocTexts == {<<>>, <<"xml">>}

Pads == SeqsUpTo({" "}, MaxPad) \cup {<<"\n">>}
\* the keyword and the phrase the LLM answers, with whitespace around them
TermStrings(core) == {a \o c \o b : a \in Pads, b \in Pads, c \in {<<>>, core}}
TermFields(core) == {FieldAbsent, FieldOther} \cup {FieldStr(x) : x \in TermStrings(core)}

NoObject(tipo) == [tipo |-> tipo, termo_curto |-> FieldAbsent, termo_completo |-> FieldAbsent]
\* the responses of the first LLM call: the call raises, the text is not JSON,
\* the JSON is not an object, or it is an object
TermResponses ==
    {NoObject("call_error"), NoObject("not_json"), NoObject("json_list")}
    \cup {[tipo |-> "object", termo_curto |-> c, termo_completo |-> l] :
            c \in TermFields(<<"a">>), l \in TermFields(<<"q">>)}

\* the responses of the second LLM call
AnalysisTexts == SeqsUpTo({"# ", "txt", "Erro de Analise"}, 2)
AnalysisResponses ==
    {[tipo |-> "call_error", text |-> <<>>], [tipo |-> "no_text", text |-> <<>>]}
    \cup {[tipo |-> "text", text |-> t] : t \in AnalysisTexts}

\* a file write: done, refused before the file is touched, or broken off
WriteOutcomes == {"ok", "unchanged", "partial"}

\* ------------------------------------------------------------------ state
VARIABLES
    pc,                 \* position of main() in LLM.py
    run,                \* number of the pipeline run
    exitCode,           \* exit code of LLM.py, -1 while it runs
    log,                \* what the run has printed and done, in order
    conteudo_xml_bruto, \* the document text
    response,           \* response of the LLM call in progress
    termos,             \* <<termo_curto, termo_completo>>
    cb,                 \* the Legislacao.py subprocess
    ret,                \* the BuscaFaiss.py subprocess
    resultados_busca,   \* what executar_busca_faiss returned
    analise,            \* analise_final_markdown
    prompt,             \* contents of the last LLM request
    idx,                \* faiss_index_<termo>.faiss
    meta,               \* faiss_index_<termo>_metadados.json
    pdf                 \* <xml>_analise.pdf of the document of the run

vars == <<pc, run, exitCode, log, conteudo_xml_bruto, response, termos, cb, ret,
          resultados_busca, analise, prompt, idx, meta, pdf>>

NoFile == [st |-> "absent", data |-> <<>>]
BrokenFile == [st |-> "partial", data |-> <<>>]
File(d) == [st |-> "ok", data |-> d]

\* the file after a write of d with the given outcome
Written(file, d, outcome) ==
    CASE outcome = "ok" -> File(d)
      [] outcome = "unchanged" -> file
      [] outcome = "partial" -> BrokenFile

NoResponse == [tipo |-> "none"]
NoPrompt == [instrucoes |-> "", partes |-> <<>>]
CbIdle == [pc |-> "idle", code |-> -1, par |-> FALSE, json |-> FALSE, etapa |-> "",
           rows |-> <<>>,
           dados |-> [vetores |-> <<>>, metadados |-> <<>>],
           antes |-> <<NoFile, NoFile>>]
RetIdle == [pc |-> "idle", code |-> -1, index |-> <<>>, metadados |-> <<>>,
            found |-> [I |-> <<>>, D |-> <<>>], dists |-> <<>>,
            resultados |-> <<>>, stdout |-> <<>>]
NoBusca == [tipo |-> "none", bloco |-> <<>>]

Init ==
    /\ pc = "start"
    /\ run = 1
    /\ exitCode = -1
    /\ log = <<>>
    /\ conteudo_xml_bruto = None
    /\ response = NoResponse
    /\ termos = <<None, None>>
    /\ cb = CbIdle
    /\ ret = RetIdle
    /\ resultados_busca = NoBusca
    /\ analise = <<>>
    /\ prompt = NoPrompt
    /\ idx = NoFile
    /\ meta = NoFile
    /\ pdf = NoFile

Logged(e) == \E i \in 1..Len(log) : log[i] = e

\* sys.exit(code) of LLM.py after printing the events es
Exit(code, es) ==
    /\ pc' = "exited"
    /\ exitCode' = code
    /\ log' = log \o es

\* ---------------------------------------------------------- LLM.py main()
\* the argument test
Start ==
    /\ pc = "start"
    /\ \E argc \in {1, 2} :
        IF argc < 2
        THEN Exit(1, <<"erro_argumento">>)
        ELSE /\ pc' = "read"
             /\ UNCHANGED <<exitCode, log>>
    /\ UNCHANGED <<run, conteudo_xml_bruto, response, termos, cb, ret,
                   resultados_busca, analise, prompt, idx, meta, pdf>>

\* ler_conteudo_xml_bruto and the test of its result
LerXml ==
    /\ pc = "read"
    /\ \/ \E e \in {"missing", "io_error"} :
            /\ conteudo_xml_bruto' = None
            /\ Exit(1, <<"etapa_leitura", "erro_leitura", "interrompido_leitura">>)
       \/ \E r \in DocTexts :
            /\ conteudo_xml_bruto' = Str(r)
            /\ IF Not(Str(r))
               THEN Exit(1, <<"etapa_leitura", "interrompido_leitura">>)
               ELSE /\ pc' = "terms"
                    /\ log' = log \o <<"etapa_leitura">>
                    /\ UNCHANGED exitCode
    /\ UNCHANGED <<run, response, termos, cb, ret, resultados_busca, analise,
                   prompt, idx, meta, pdf>>

\* extrair_termos_gemini up to its return
ExtrairTermos ==
    /\ pc = "terms"
    /\ \E r \in TermResponses :
        /\ response' = r
        /\ termos' = extrair_termos_gemini(r)
        /\ log' = log \o <<"etapa1", "llm_termos">>
                      \o (IF extrair_termos_gemini(r)[1].none THEN <<"erro_termos">> ELSE <<>>)
    /\ prompt' = PromptTermos(conteudo_xml_bruto.s)
    /\ pc' = "terms_ret"
    /\ UNCHANGED <<run, exitCode, conteudo_xml_bruto, cb, ret, resultados_busca,
                   analise, idx, meta, pdf>>

\* VerificarTermos without the delay
VerificarTermosSemDelay ==
    /\ pc = "terms_ret"
    /\ response' = NoResponse
    /\ IF Not(termos[1]) \/ Not(termos[2])
       THEN Exit(1, <<"interrompido_termos">>)
       ELSE /\ pc' = "corpus_start"
            /\ UNCHANGED <<exitCode, log>>
    /\ UNCHANGED <<run, conteudo_xml_bruto, termos, cb, ret, resultados_busca,
                   analise, prompt, idx, meta, pdf>>

\* the test of the two terms, then the delay
VerificarTermos ==
    /\ pc = "terms_ret"
    /\ response' = NoResponse
    /\ IF Not(termos[1]) \/ Not(termos[2])
       THEN Exit(1, <<"interrompido_termos">>)
       ELSE /\ pc' = "corpus_start"
            /\ log' = log \o <<"delay">>
            /\ UNCHANGED exitCode
    /\ UNCHANGED <<run, conteudo_xml_bruto, termos, cb, ret, resultados_busca,
                   analise, prompt, idx, meta, pdf>>

\* executar_script_simples starts Legislacao.py
IniciarCorpus ==
    /\ pc = "corpus_start"
    /\ pc' = "corpus"
    /\ cb' = [CbIdle EXCEPT !.pc = "launch"]
    /\ log' = log \o <<"etapa2">>
    /\ UNCHANGED <<run, exitCode, conteudo_xml_bruto, response, termos, ret,
                   resultados_busca, analise, prompt, idx, meta, pdf>>

\* ------------------------------------------------- Legislacao.py __main__
\* the script ends with the given exit code
CbExit(code, etapa, es) ==
    /\ cb' = [cb EXCEPT !.pc = "exited", !.code = code, !.etapa = etapa]
    /\ log' = log \o es

\* the same after a response text r
CbExitResposta(code, etapa, r, es) ==
    /\ cb' = [cb EXCEPT !.pc = "exited", !.code = code, !.etapa = etapa,
                        !.par = r.par, !.json = r.json]
    /\ log' = log \o es

\* the imports at the top of the script; a missing script ends python with 2
CbLaunch ==
    /\ pc = "corpus" /\ cb.pc = "launch"
    /\ \E o \in {"ok", "import_error", "no_script"} :
        CASE o = "ok" ->
                /\ cb' = [cb EXCEPT !.pc = "request", !.antes = <<idx, meta>>]
                /\ UNCHANGED log
          [] o = "import_error" ->
                /\ cb' = [cb EXCEPT !.pc = "exited", !.code = 1, !.etapa = "import_error",
                                    !.antes = <<idx, meta>>]
                /\ log' = log \o <<"cb_erro_import">>
          [] o = "no_script" ->
                /\ cb' = [cb EXCEPT !.pc = "exited", !.code = 2, !.etapa = "no_script",
                                    !.antes = <<idx, meta>>]
                /\ log' = log \o <<"cb_erro_script">>
    /\ UNCHANGED <<pc, run, exitCode, conteudo_xml_bruto, response, termos, ret,
                   resultados_busca, analise, prompt, idx, meta, pdf>>

\* fazer_requisicao_fazenda_sp fails: resposta is None and the script ends
CbRequisicaoFalha ==
    /\ pc = "corpus" /\ cb.pc = "request"
    /\ \E e \in {"cb_erro_http", "cb_erro_requisicao"} :
        CbExit(0, "http_error", <<"cb_requisicao", e>>)
    /\ UNCHANGED <<pc, run, exitCode, conteudo_xml_bruto, response, termos, ret,
                   resultados_busca, analise, prompt, idx, meta, pdf>>

\* the portal answers: desserializar_json_resistente, the test of dados_json,
\* extrair_resultados_recursivamente and the test of resultados_base
CbResposta ==
    /\ pc = "corpus" /\ cb.pc = "request"
    /\ \E r \in Respostas :
        CASE r.res.etapa = "parse_error" ->
                CbExitResposta(0, "parse_error", r, <<"cb_requisicao", "cb_erro_json">>)
          [] r.res.etapa = "dados_vazios" ->
                CbExitResposta(0, "dados_vazios", r, <<"cb_requisicao">>)
          [] r.res.etapa = "crash" ->
                CbExitResposta(1, "crash", r, <<"cb_requisicao", "cb_traceback">>)
          [] r.res.etapa = "sem_linhas" ->
                CbExitResposta(0, "sem_linhas", r,
                       <<"cb_requisicao", "cb_extracao", "cb_aviso_sem_linhas">>)
          [] r.res.etapa = "linhas" ->
                /\ cb' = [cb EXCEPT !.pc = "embed", !.etapa = "linhas",
                                    !.rows = r.res.rows, !.par = r.par, !.json = r.json]
                /\ log' = log \o <<"cb_requisicao", "cb_extracao">>
    /\ UNCHANGED <<pc, run, exitCode, conteudo_xml_bruto, response, termos, ret,
                   resultados_busca, analise, prompt, idx, meta, pdf>>

\* processar_para_faiss: the embedding call may raise, which nothing catches
CbEmbed ==
    /\ pc = "corpus" /\ cb.pc = "embed"
    /\ \E ok \in BOOLEAN :
        IF ok
        THEN /\ cb' = [cb EXCEPT !.pc = "write_index",
                                 !.dados = processar_para_faiss(cb.rows)]
             /\ UNCHANGED log
        ELSE CbExit(1, "embed_error", <<"cb_traceback">>)
    /\ UNCHANGED <<pc, run, exitCode, conteudo_xml_bruto, response, termos, ret,
                   resultados_busca, analise, prompt, idx, meta, pdf>>

\* construir_e_salvar_indice_faiss up to the end of the first try block
CbSalvarIndice ==
    /\ pc = "corpus" /\ cb.pc = "write_index"
    /\ IF Len(cb.dados.vetores) = 0
       THEN /\ CbExit(0, "sem_vetores", <<"cb_aviso_sem_vetores">>)
            /\ UNCHANGED idx
       ELSE \E o \in WriteOutcomes :
            /\ idx' = Written(idx, cb.dados.vetores, o)
            /\ cb' = [cb EXCEPT !.pc = "write_meta"]
            /\ log' = log \o <<IF o = "ok" THEN "cb_indice_salvo" ELSE "cb_erro_indice">>
    /\ UNCHANGED <<pc, run, exitCode, conteudo_xml_bruto, response, termos, ret,
                   resultados_busca, analise, prompt, meta, pdf>>

\* the second try block, then the end of the script
CbSalvarMetadados ==
    /\ pc = "corpus" /\ cb.pc = "write_meta"
    /\ \E o \in WriteOutcomes :
        /\ meta' = Written(meta, cb.dados.metadados, o)
        /\ CbExit(0, "salvo",
                  <<IF o = "ok" THEN "cb_metadados_salvos" ELSE "cb_erro_metadados">>)
    /\ UNCHANGED <<pc, run, exitCode, conteudo_xml_bruto, response, termos, ret,
                   resultados_busca, analise, prompt, idx, pdf>>

\* RetornoCorpus without the test of the exit code of Legislacao.py
RetornoCorpusSemTeste ==
    /\ pc = "corpus" /\ cb.pc = "exited"
    /\ pc' = "search"
    /\ ret' = [RetIdle EXCEPT !.pc = "launch"]
    /\ log' = log \o <<"etapa3">>
    /\ cb' = CbIdle
    /\ UNCHANGED <<run, exitCode, conteudo_xml_bruto, response, termos,
                   resultados_busca, analise, prompt, idx, meta, pdf>>

\* executar_script_simples returns: None after a non-zero exit code, the
\* captured output otherwise; main() stops on None and starts BuscaFaiss.py
\* through executar_busca_faiss otherwise
RetornoCorpus ==
    /\ pc = "corpus" /\ cb.pc = "exited"
    /\ IF cb.code # 0
       THEN /\ Exit(1, <<"erro_etapa2", "interrompido_corpus">>)
            /\ UNCHANGED ret
       ELSE /\ pc' = "search"
            /\ ret' = [RetIdle EXCEPT !.pc = "launch"]
            /\ log' = log \o <<"etapa3">>
            /\ UNCHANGED exitCode
    /\ cb' = CbIdle
    /\ UNCHANGED <<run, conteudo_xml_bruto, response, termos, resultados_busca,
                   analise, prompt, idx, meta, pdf>>

\* ------------------------------------------------- BuscaFaiss.py __main__
RetExit(code, es) ==
    /\ ret' = [ret EXCEPT !.pc = "exited", !.code = code]
    /\ log' = log \o es

\* the imports at the top of the script
RetLaunch ==
    /\ pc = "search" /\ ret.pc = "launch"
    /\ \E o \in {"ok", "import_error", "no_script"} :
        CASE o = "ok" -> /\ ret' = [ret EXCEPT !.pc = "load"]
                         /\ UNCHANGED log
          [] o = "import_error" -> RetExit(1, <<"ret_erro_import">>)
          [] o = "no_script" -> RetExit(2, <<"ret_erro_script">>)
    /\ UNCHANGED <<pc, run, exitCode, conteudo_xml_bruto, response, termos, cb,
                   resultados_busca, analise, prompt, idx, meta, pdf>>

\* the exceptions of the load when only the index file is looked at
ErrosDeCargaSoIndice ==
    CASE idx.st = "absent" -> {"ret_nao_encontrado", "ret_erro_carregar"}
      [] idx.st = "partial" -> {"ret_erro_carregar"}
      [] OTHER -> {}

\* The exceptions reading the two files can raise: the index is read first.
\* Which exception the index library raises for a missing file is not fixed
\* by the script, so both handlers are possible for it.
ErrosDeCarga ==
    CASE idx.st = "absent" -> {"ret_nao_encontrado", "ret_erro_carregar"}
      [] idx.st = "partial" -> {"ret_erro_carregar"}
      [] meta.st = "absent" -> {"ret_nao_encontrado"}
      [] meta.st = "partial" -> {"ret_erro_carregar"}
      [] OTHER -> {}

\* carregar_indice_e_metadados and the test of its result
RetCarregar ==
    /\ pc = "search" /\ ret.pc = "load"
    /\ IF ErrosDeCarga # {}
       THEN \E e \in ErrosDeCarga : RetExit(1, <<e, "ret_stderr_nao_carregou">>)
       ELSE /\ ret' = [ret EXCEPT !.pc = "query", !.index = idx.data,
                                  !.metadados = meta.data]
            /\ log' = log \o <<"ret_carregado">>
    /\ UNCHANGED <<pc, run, exitCode, conteudo_xml_bruto, response, termos, cb,
                   resultados_busca, analise, prompt, idx, meta, pdf>>

\* buscar_faiss with k = 5: the query embedding may raise, the search returns
\* the nearest vectors by ascending distance, the mapping may raise
RetBuscar ==
    /\ pc = "search" /\ ret.pc = "query"
    /\ \/ RetExit(1, <<"ret_busca", "ret_traceback">>)
       \/ \E dists \in Distancias(Len(ret.index)), desempate \in {"asc", "desc"} :
            LET found == IndexSearch(Len(ret.index), dists, desempate, K)
                r == buscar_faiss(found, ret.metadados, K)
            IN  IF r.crash
                THEN /\ ret' = [ret EXCEPT !.pc = "exited", !.code = 1]
                     /\ log' = log \o <<"ret_busca", "ret_index_search", "ret_traceback">>
                ELSE /\ ret' = [ret EXCEPT !.pc = "print", !.found = found,
                                   !.dists = dists, !.resultados = r.resultados]
                     /\ log' = log \o <<"ret_busca", "ret_index_search">>
    /\ UNCHANGED <<pc, run, exitCode, conteudo_xml_bruto, response, termos, cb,
                   resultados_busca, analise, prompt, idx, meta, pdf>>

\* RetImprimir saving the annotated passages over the metadata file
RetImprimirGravando ==
    /\ pc = "search" /\ ret.pc = "print"
    /\ ret' = [RetIdle EXCEPT !.pc = "exited", !.code = 0,
                              !.stdout = Formatar(ret.resultados)]
    /\ log' = log \o <<"ret_bloco">>
    /\ meta' = File(ret.resultados)
    /\ UNCHANGED <<pc, run, exitCode, conteudo_xml_bruto, response, termos, cb,
                   resultados_busca, analise, prompt, idx, pdf>>

\* print(resultados_string) and the end of the script
RetImprimir ==
    /\ pc = "search" /\ ret.pc = "print"
    /\ ret' = [RetIdle EXCEPT !.pc = "exited", !.code = 0,
                              !.stdout = Formatar(ret.resultados)]
    /\ log' = log \o <<"ret_bloco">>
    /\ UNCHANGED <<pc, run, exitCode, conteudo_xml_bruto, response, termos, cb,
                   resultados_busca, analise, prompt, idx, meta, pdf>>

\* ------------------------------------------------- LLM.py main(), the rest
\* executar_busca_faiss returns the captured output, or the text that starts
\* with ERRO NA BUSCA FAISS after a non-zero exit code, and main() tests it
RetornoBusca ==
    /\ pc = "search" /\ ret.pc = "exited"
    /\ IF ret.code # 0
       THEN /\ resultados_busca' = [tipo |-> "erro", bloco |-> <<>>]
            /\ Exit(1, <<"erro_etapa3", "interrompido_busca">>)
       ELSE /\ resultados_busca' = [tipo |-> "stdout", bloco |-> ret.stdout]
            /\ pc' = "analyze"
            /\ UNCHANGED <<exitCode, log>>
    /\ ret' = RetIdle
    /\ UNCHANGED <<run, conteudo_xml_bruto, response, termos, cb, analise, prompt,
                   idx, meta, pdf>>

\* Analisar issuing the call again after a call that raised
AnalisarComNovaTentativa ==
    /\ pc = "analyze"
    /\ \E r \in AnalysisResponses :
        /\ analise' = analisar_resultados_gemini(r)
        /\ log' = log \o <<"etapa4", "llm_analise">>
                      \o (IF r.tipo = "text" THEN <<>> ELSE <<"erro_analise">>)
        /\ pc' = IF r.tipo = "call_error" THEN "analyze" ELSE "pdf"
    /\ prompt' = PromptAnalise(conteudo_xml_bruto.s, resultados_busca)
    /\ UNCHANGED <<run, exitCode, conteudo_xml_bruto, response, termos, cb, ret,
                   resultados_busca, idx, meta, pdf>>

\* analisar_resultados_gemini
Analisar ==
    /\ pc = "analyze"
    /\ \E r \in AnalysisResponses :
        /\ analise' = analisar_resultados_gemini(r)
        /\ log' = log \o <<"etapa4", "llm_analise">>
                      \o (IF r.tipo = "text" THEN <<>> ELSE <<"erro_analise">>)
    /\ prompt' = PromptAnalise(conteudo_xml_bruto.s, resultados_busca)
    /\ pc' = "pdf"
    /\ UNCHANGED <<run, exitCode, conteudo_xml_bruto, response, termos, cb, ret,
                   resultados_busca, idx, meta, pdf>>

\* the test of the analysis text, gerar_pdf, and the end of main()
GerarPdf ==
    /\ pc = "pdf"
    /\ IF DeveGerarPdf(analise)
       THEN \E o \in WriteOutcomes :
            /\ pdf' = Written(pdf, <<"pdf">>, o)
            /\ Exit(0, <<"etapa5", IF o = "ok" THEN "pdf_gerado" ELSE "erro_pdf",
                         "concluido">>)
       ELSE /\ Exit(0, <<"aviso_sem_pdf", "concluido">>)
            /\ UNCHANGED pdf
    /\ UNCHANGED <<run, conteudo_xml_bruto, response, termos, cb, ret,
                   resultados_busca, analise, prompt, idx, meta>>

\* The next pipeline run in the same working directory, for a document of its
\* own: the path of the report is made from the name of the document, which
\* has no report yet; the paths of the index pair are made from the keyword.
NovaExecucao ==
    /\ pc = "exited"
    /\ run < MaxRuns
    /\ run' = run + 1
    /\ pc' = "start"
    /\ exitCode' = -1
    /\ log' = <<>>
    /\ conteudo_xml_bruto' = None
    /\ response' = NoResponse
    /\ termos' = <<None, None>>
    /\ cb' = CbIdle
    /\ ret' = RetIdle
    /\ resultados_busca' = NoBusca
    /\ analise' = <<>>
    /\ prompt' = NoPrompt
    /\ pdf' = NoFile
    /\ UNCHANGED <<idx, meta>>

Next ==
    \/ Start \/ LerXml \/ ExtrairTermos \/ VerificarTermos \/ IniciarCorpus
    \/ CbLaunch \/ CbRequisicaoFalha \/ CbResposta \/ CbEmbed
    \/ CbSalvarIndice \/ CbSalvarMetadados \/ RetornoCorpus
    \/ RetLaunch \/ RetCarregar \/ RetBuscar \/ RetImprimir \/ RetornoBusca
    \/ Analisar \/ GerarPdf \/ NovaExecucao

Spec == Init /\ [][Next]_vars

\* ------------------------------- two Corpus Builders for the same keyword
\* Two Legislacao.py processes started for the same keyword run side by side.
\* Here cb maps each process to its state, with saida what the process has
\* printed, and log lists the completed file writes in the order the file
\* system performed them.
Builders == {"A", "B"}

ConcIdle == [pc |-> "request", code |-> -1, etapa |-> "",
             dados |-> [vetores |-> <<>>, metadados |-> <<>>], saida |-> <<>>]

\* the portal answers offered to the two processes
RespostasConc == {r \in Respostas : Len(r.res.rows) <= MaxConcRows}

InitConc ==
    /\ pc = "corpus"
    /\ run = 1
    /\ exitCode = -1
    /\ log = <<>>
    /\ conteudo_xml_bruto = None
    /\ response = NoResponse
    /\ termos = <<None, None>>
    /\ cb = [b \in Builders |-> ConcIdle]
    /\ ret = RetIdle
    /\ resultados_busca = NoBusca
    /\ analise = <<>>
    /\ prompt = NoPrompt
    /\ idx = NoFile
    /\ meta = NoFile
    /\ pdf = NoFile

\* process b ends with the given exit code after printing es
ConcExit(b, code, etapa, es) ==
    cb' = [cb EXCEPT ![b] = [@ EXCEPT !.pc = "exited", !.code = code,
                                      !.etapa = etapa, !.saida = @ \o es]]

\* fazer_requisicao_fazenda_sp fails in process b
ConcRequisicaoFalha(b) ==
    /\ cb[b].pc = "request"
    /\ \E e \in {"cb_erro_http", "cb_erro_requisicao"} :
        ConcExit(b, 0, "http_error", <<"cb_requisicao", e>>)
    /\ UNCHANGED <<pc, run, exitCode, log, conteudo_xml_bruto, response, termos, ret,
                   resultados_busca, analise, prompt, idx, meta, pdf>>

\* the portal answers process b: parse, test, extraction, test, embedding
ConcResposta(b) ==
    /\ cb[b].pc = "request"
    /\ \E r \in RespostasConc :
        CASE r.res.etapa = "parse_error" ->
                ConcExit(b, 0, "parse_error", <<"cb_requisicao", "cb_erro_json">>)
          [] r.res.etapa = "dados_vazios" ->
                ConcExit(b, 0, "dados_vazios", <<"cb_requisicao">>)
          [] r.res.etapa = "crash" ->
                ConcExit(b, 1, "crash", <<"cb_requisicao", "cb_traceback">>)
          [] r.res.etapa = "sem_linhas" ->
                ConcExit(b, 0, "sem_linhas",
                         <<"cb_requisicao", "cb_extracao", "cb_aviso_sem_linhas">>)
          [] r.res.etapa = "linhas" ->
                \E ok \in BOOLEAN :
                    IF ok
                    THEN cb' = [cb EXCEPT ![b] =
                                  [@ EXCEPT !.pc = "write_index", !.etapa = "linhas",
                                            !.dados = processar_para_faiss(r.res.rows),
                                            !.saida = @ \o <<"cb_requisicao", "cb_extracao">>]]
                    ELSE ConcExit(b, 1, "embed_error",
                                  <<"cb_requisicao", "cb_extracao", "cb_traceback">>)
    /\ UNCHANGED <<pc, run, exitCode, log, conteudo_xml_bruto, response, termos, ret,
                   resultados_busca, analise, prompt, idx, meta, pdf>>

\* the first try block of construir_e_salvar_indice_faiss in process b
ConcSalvarIndice(b) ==
    /\ cb[b].pc = "write_index"
    /\ \E o \in WriteOutcomes :
        /\ idx' = Written(idx, cb[b].dados.vetores, o)
        /\ cb' = [cb EXCEPT ![b] =
                    [@ EXCEPT !.pc = "write_meta",
                              !.saida = Append(@, IF o = "ok" THEN "cb_indice_salvo"
                                                              ELSE "cb_erro_indice")]]
        /\ log' = IF o = "ok" THEN Append(log, [proc |-> b, arquivo |-> "indice"])
                              ELSE log
    /\ UNCHANGED <<pc, run, exitCode, conteudo_xml_bruto, response, termos, ret,
                   resultados_busca, analise, prompt, meta, pdf>>

\* the second try block in process b, then the end of the script
ConcSalvarMetadados(b) ==
    /\ cb[b].pc = "write_meta"
    /\ \E o \in WriteOutcomes :
        /\ meta' = Written(meta, cb[b].dados.metadados, o)
        /\ ConcExit(b, 0, "salvo", <<IF o = "ok" THEN "cb_metadados_salvos"
                                                 ELSE "cb_erro_metadados">>)
        /\ log' = IF o = "ok" THEN Append(log, [proc |-> b, arquivo |-> "metadados"])
                              ELSE log
    /\ UNCHANGED <<pc, run, exitCode, conteudo_xml_bruto, response, termos, ret,
                   resultados_busca, analise, prompt, idx, pdf>>

NextConc ==
    \E b \in Builders :
        \/ ConcRequisicaoFalha(b) \/ ConcResposta(b)
        \/ ConcSalvarIndice(b) \/ ConcSalvarMetadados(b)

SpecConc == InitConc /\ [][NextConc]_vars

\* ------------------------------------------- the extraction on its own
\* desserializar_json_resistente and extrair_resultados_recursivamente applied
\* to one portal text, which response holds; cb.rows takes the passages.
InitExtracao ==
    /\ pc = "parse"
    /\ run = 1
    /\ exitCode = -1
    /\ log = <<>>
    /\ conteudo_xml_bruto = None
    /\ \E b \in PortalBodies : response = [tipo |-> "portal", texto |-> b]
    /\ termos = <<None, None>>
    /\ cb = CbIdle
    /\ ret = RetIdle
    /\ resultados_busca = NoBusca
    /\ analise = <<>>
    /\ prompt = NoPrompt
    /\ idx = NoFile
    /\ meta = NoFile
    /\ pdf = NoFile

\* dados_json = desserializar_json_resistente(resposta.text)
ExtDesserializar ==
    /\ pc = "parse"
    /\ IF desserializar_json_resistente(response.texto).ok
       THEN /\ pc' = "extract"
            /\ cb' = [cb EXCEPT !.pc = "extract", !.json = TRUE]
            /\ UNCHANGED log
       ELSE /\ pc' = "done"
            /\ cb' = [cb EXCEPT !.pc = "exited", !.code = 0, !.etapa = "parse_error"]
            /\ log' = log \o <<"cb_erro_json">>
    /\ UNCHANGED <<run, exitCode, conteudo_xml_bruto, response, termos, ret,
                   resultados_busca, analise, prompt, idx, meta, pdf>>

\* resultados_base = extrair_resultados_recursivamente(dados_json)
ExtExtrair ==
    /\ pc = "extract"
    /\ LET ext == extrair_resultados_recursivamente(
                      desserializar_json_resistente(response.texto).val)
       IN  IF ext.crash
           THEN /\ cb' = [cb EXCEPT !.pc = "exited", !.code = 1, !.etapa = "crash"]
                /\ log' = log \o <<"cb_traceback">>
           ELSE /\ cb' = [cb EXCEPT !.pc = "exited", !.code = 0, !.etapa = "extraido",
                                    !.rows = ext.rows]
                /\ log' = log \o <<"cb_extracao">>
    /\ pc' = "done"
    /\ UNCHANGED <<run, exitCode, conteudo_xml_bruto, response, termos, ret,
                   resultados_busca, analise, prompt, idx, meta, pdf>>

NextExtracao == ExtDesserializar \/ ExtExtrair

SpecExtracao == InitExtracao /\ [][NextExtracao]_vars

\* ================================================================ claims
FalhasDeEtapa ==
    {"erro_leitura", "interrompido_leitura", "erro_termos",
     "cb_erro_import", "cb_erro_script", "cb_erro_http", "cb_erro_requisicao",
     "cb_erro_json", "cb_traceback",
     "ret_erro_import", "ret_erro_script", "ret_nao_encontrado", "ret_erro_carregar",
     "ret_traceback"}
IniciosDeEtapa == {"etapa1", "etapa2", "etapa3", "etapa4", "etapa5"}

\* C1: once a stage has failed (document read, Term Extractor, Corpus Builder
\* with its portal request and its parse, Retriever) no later stage is started
\* and the pipeline ends with a non-zero exit code.
C1_FailureHalts ==
    \A i \in 1..Len(log) :
        log[i] \in FalhasDeEtapa =>
            /\ \A j \in (i+1)..Len(log) : log[j] \notin IniciosDeEtapa
            /\ pc = "exited" => exitCode # 0

\* C2: whenever the index file and the metadata file both exist, the index
\* holds as many vectors as the metadata list has entries and the entry at
\* list position i has id i.
C2_IndexMatchesMetadata ==
    (idx.st = "ok" /\ meta.st = "ok") =>
        /\ Len(idx.data) = Len(meta.data)
        /\ \A i \in 1..Len(meta.data) : meta.data[i].id = i - 1

\* a field of the LLM's answer is a string that is not blank
Preenchido(campo) ==
    campo.tipo = "str" /\ \E i \in 1..Len(campo.s) : campo.s[i] \notin Whitespace
RespostaValida(r) ==
    r.tipo = "object" /\ Preenchido(r.termo_curto) /\ Preenchido(r.termo_completo)
Aparado(v) ==
    ~v.none /\ Len(v.s) > 0 /\ v.s[1] \notin Whitespace /\ v.s[Len(v.s)] \notin Whitespace

\* C3: for a call error, an answer that is not the two-field object, a missing
\* field or a field that is blank, extrair_termos_gemini returns (None, None),
\* the Corpus Builder is not started and the pipeline exits non-zero; otherwise
\* both returned terms are non-empty and trimmed.
C3_TermExtraction ==
    /\ pc = "terms_ret" =>
          IF RespostaValida(response)
          THEN Aparado(termos[1]) /\ Aparado(termos[2]) /\ ~Logged("erro_termos")
          ELSE termos = <<None, None>> /\ Logged("erro_termos")
    /\ Logged("erro_termos") =>
          /\ pc \in {"terms_ret", "exited"}
          /\ ~Logged("etapa2")
          /\ pc = "exited" => exitCode # 0

\* the answer with a blank termo_curto next to a filled termo_completo
C3_Witness ==
    /\ pc = "terms_ret"
    /\ response.tipo = "object"
    /\ response.termo_curto = FieldStr(<<" ">>)
    /\ Preenchido(response.termo_completo)
    /\ termos = <<None, None>>

\* the Retriever has searched the loaded index and has not yet ended normally
BuscaFeita == pc = "search" /\ ret.pc \in {"print", "exited"} /\ Logged("ret_index_search")

\* C4: a query with k greater than the number of indexed vectors does not
\* crash, returns fewer than k results, drops every slot with id -1 and gives
\* every result the metadata entry at the position of the returned id.
C4_QueryBeyondIndex ==
    (BuscaFeita /\ K > Len(ret.index)) =>
        /\ ~Logged("ret_traceback")
        /\ ret.pc = "print" =>
              /\ Len(ret.resultados) < K
              /\ Len(ret.resultados) =
                    Cardinality({i \in 1..K : ret.found.I[i] # -1})
              /\ \A j \in 1..Len(ret.resultados) :
                    LET id == ret.found.I[ret.resultados[j].rank]
                    IN  /\ id # -1
                        /\ id + 1 \in 1..Len(ret.metadados)
                        /\ ret.resultados[j].id = ret.metadados[id + 1].id
                        /\ ret.resultados[j].path = ret.metadados[id + 1].path
                        /\ ret.resultados[j].conteudo = ret.metadados[id + 1].conteudo

\* C5: a query with k at most the number of indexed vectors returns exactly k
\* results, with the ranks 1..k, distances that do not decrease with the rank,
\* and at rank 1 the least distance of all indexed vectors.
C5_QueryWithinIndex ==
    (BuscaFeita /\ K <= Len(ret.index)) =>
        /\ ~Logged("ret_traceback")
        /\ ret.pc = "print" =>
              /\ Len(ret.resultados) = K
              /\ \A j \in 1..Len(ret.resultados) : ret.resultados[j].rank = j
              /\ \A j \in 1..(Len(ret.resultados) - 1) :
                    ret.resultados[j].distancia_l2 <= ret.resultados[j + 1].distancia_l2
              /\ \A v \in 1..Len(ret.dists) :
                    ret.resultados[1].distancia_l2 <= ret.dists[v]

\* the Corpus Builder has ended after the portal answered with a text
CbRespondido ==
    /\ pc = "corpus" /\ cb.pc = "exited"
    /\ cb.etapa \in {"parse_error", "dados_vazios", "crash", "sem_linhas", "salvo",
                     "embed_error"}

\* C6 as stated: for every response text without a "[" ... "]" pair the Corpus
\* Builder reports a parse failure and writes neither file.
C6_NoPairReportsParseFailure ==
    (CbRespondido /\ ~cb.par) =>
        /\ Logged("cb_erro_json")
        /\ <<idx, meta>> = cb.antes

\* C6 amended: for every response text without a "[" ... "]" pair the Corpus
\* Builder writes neither file, and it reports a parse failure whenever the
\* text is not by itself valid JSON.
C6_NoPairWritesNothing ==
    (CbRespondido /\ ~cb.par) =>
        /\ <<idx, meta>> = cb.antes
        /\ ~Logged("cb_indice_salvo") /\ ~Logged("cb_metadados_salvos")
        /\ ~cb.json => Logged("cb_erro_json")

\* a run on an existing index pair whose portal text is framing only
C6_Witness ==
    /\ CbRespondido /\ ~cb.par /\ ~cb.json
    /\ Logged("cb_erro_json")
    /\ cb.antes[1].st = "ok" /\ cb.antes[2].st = "ok"

\* C7: whenever a parsed portal payload yields zero passages, the Corpus
\* Builder logs a warning and leaves the index and metadata files as they were.
C7_ZeroRowsWarns ==
    (CbRespondido /\ cb.etapa \in {"dados_vazios", "sem_linhas"}) =>
        /\ Logged("cb_aviso_sem_linhas")
        /\ <<idx, meta>> = cb.antes

\* C8: a run whose Corpus Builder extracted zero passages, and in which no
\* script failed to start or crashed, goes on to the Report Generator and ends
\* with exit code 0.
C8_EmptyResultContinues ==
    (/\ pc = "exited"
     /\ Logged("cb_aviso_sem_linhas")
     /\ ~Logged("ret_erro_import") /\ ~Logged("ret_erro_script")
     /\ ~Logged("ret_traceback")) =>
        /\ exitCode = 0
        /\ Logged("etapa4")

\* the Retriever script got past its imports
RetExecutou == ~Logged("ret_erro_import") /\ ~Logged("ret_erro_script")

C10_RenderOnlyValidated ==
    Logged("etapa5") => (Len(analise) > 0 /\ analise[1] = "# ")

\* C11: whenever the Retriever has loaded an index pair, the Corpus Builder of
\* the same run wrote both files of it; after a failed portal request the
\* Retriever does not load a pair of an earlier run.
C11_LoadsOwnPair ==
    Logged("ret_carregado") =>
        /\ Logged("cb_indice_salvo") /\ Logged("cb_metadados_salvos")
        /\ ~Logged("cb_erro_http") /\ ~Logged("cb_erro_requisicao")

\* process b has printed the message e
Imprimiu(b, e) == \E i \in 1..Len(cb[b].saida) : cb[b].saida[i] = e

\* both processes have ended, each has written its two files, no write failed
AmbosSalvaram ==
    \A b \in Builders :
        /\ cb[b].pc = "exited"
        /\ Imprimiu(b, "cb_indice_salvo") /\ Imprimiu(b, "cb_metadados_salvos")

\* C12: once two concurrent Corpus Builders of one keyword have both written
\* their files, the index file and the metadata file on disk are both those of
\* the process that wrote last.
C12_LastWriterWins ==
    AmbosSalvaram =>
        LET ultimo == log[Len(log)].proc
        IN  /\ idx = File(cb[ultimo].dados.vetores)
            /\ meta = File(cb[ultimo].dados.metadados)

\* x is one of the parts interpolated into the request p
Contem(p, x) == \E i \in 1..Len(p.partes) : p.partes[i] = x

\* C13: the request the Report Generator sends to the LLM contains the text
\* of the document and the result block received from the Retriever.
C13_AnalysisRequestCarriesInputs ==
    Logged("llm_analise") =>
        /\ prompt.instrucoes = "analise"
        /\ Contem(prompt, conteudo_xml_bruto.s)
        /\ Contem(prompt, resultados_busca.bloco)

\* C14: a run that ends with exit code 0 has written the report: no run with
\* a failed analysis call or a failed rendering ends with exit code 0.
C14_ExitZeroMeansReport ==
    (pc = "exited" /\ exitCode = 0) =>
        /\ Logged("pdf_gerado") /\ pdf.st = "ok"
        /\ ~Logged("erro_analise") /\ ~Logged("erro_pdf")

\* the stage-start messages of the log, in the order printed
RECURSIVE InicioDasEtapas(_)
InicioDasEtapas(l) ==
    IF l = <<>> THEN <<>>
    ELSE IF Head(l) \in IniciosDeEtapa \cup {"etapa_leitura"}
         THEN <<Head(l)>> \o InicioDasEtapas(Tail(l))
         ELSE InicioDasEtapas(Tail(l))

OrdemDasEtapas == <<"etapa_leitura", "etapa1", "etapa2", "etapa3", "etapa4", "etapa5">>

\* the step prints the message e
Imprime(e) == \E i \in (Len(log) + 1)..Len(log') : log'[i] = e

\* what holds of every step of main(): a stage is entered from the stage
\* before it, after the result of that stage was seen to be good, each stage
\* announces itself at its own place, and a subprocess is alive only inside
\* its own stage
PassoEmOrdem ==
    /\ (pc' = "read" /\ pc # "read") => pc = "start"
    /\ (pc' = "terms" /\ pc # "terms") => pc = "read" /\ ~Not(conteudo_xml_bruto')
    /\ (pc' = "terms_ret" /\ pc # "terms_ret") => pc = "terms"
    /\ (pc' = "corpus_start" /\ pc # "corpus_start") =>
            pc = "terms_ret" /\ ~Not(termos[1]) /\ ~Not(termos[2])
    /\ (pc' = "corpus" /\ pc # "corpus") => pc = "corpus_start"
    /\ (pc' = "search" /\ pc # "search") =>
            pc = "corpus" /\ cb.pc = "exited" /\ cb.code = 0
    /\ (pc' = "analyze" /\ pc # "analyze") =>
            /\ pc = "search" /\ ret.pc = "exited" /\ ret.code = 0
            /\ resultados_busca'.tipo = "stdout"
    /\ (pc' = "pdf" /\ pc # "pdf") => pc = "analyze"
    /\ Len(log') > Len(log) =>
            /\ Imprime("etapa_leitura") => pc = "read"
            /\ Imprime("etapa1") => pc = "terms"
            /\ Imprime("etapa2") => pc = "corpus_start"
            /\ Imprime("etapa3") => pc = "corpus" /\ pc' = "search"
            /\ Imprime("etapa4") => pc = "analyze"
            /\ Imprime("etapa5") => pc = "pdf" /\ ~Logged("erro_analise")
    /\ cb'.pc # "idle" => pc' = "corpus"
    /\ ret'.pc # "idle" => pc' = "search"

\* C15: in every run the stages start in the order document read, Term
\* Extractor, Corpus Builder, Retriever, Report Generator, PDF rendering, one
\* at a time, each after main() has seen the stage before it succeed.
C15_StagesInOrder == [][PassoEmOrdem]_vars

\* a run that went through all six stages
C15_Witness ==
    /\ pc = "exited" /\ exitCode = 0
    /\ InicioDasEtapas(log) = OrdemDasEtapas

\* The rows of the ResultRows arrays of a parsed value, in traversal order and
\* without entering a matched array.  With irmaos the keys that follow a
\* ResultRows array in the same dictionary are traversed too; without it the
\* traversal of a dictionary ends at its ResultRows array.
RECURSIVE Linhas(_, _)
RECURSIVE LinhasDe(_, _, _)
LinhasDe(v, i, irmaos) ==
    IF i > Len(v.vals) THEN <<>>
    ELSE IF v.t = "dict" /\ v.keys[i] = "ResultRows" /\ v.vals[i].t = "list"
         THEN v.vals[i].vals \o (IF irmaos THEN LinhasDe(v, i + 1, irmaos) ELSE <<>>)
         ELSE Linhas(v.vals[i], irmaos) \o LinhasDe(v, i + 1, irmaos)
Linhas(v, irmaos) ==
    IF v.t \in {"dict", "list"} THEN LinhasDe(v, 1, irmaos) ELSE <<>>

\* a row with a Path and an HTML content
LinhaValida(row) ==
    /\ row.t = "dict"
    /\ Truthy(DictGet(row, "Path"))
    /\ Truthy(DictGet(row, "PublishingPageContentOWSHTML"))

\* one Passage per valid row, numbered from 0 in the order of the rows
Passagens(linhas) ==
    LET validas == SelectSeq(linhas, LinhaValida)
    IN  [j \in 1..Len(validas) |->
            [id |-> j - 1,
             path |-> DictGet(validas[j], "Path").s,
             conteudo |-> <<"PATH: ", DictGet(validas[j], "Path").s, "CONTEUDO: ",
                            DictGet(validas[j], "PublishingPageContentOWSHTML").s>>]]

\* the value parsed from the portal text
DadosJson == desserializar_json_resistente(response.texto).val

\* the extraction was applied to the parsed value and has ended
Extraiu == pc = "done" /\ cb.json

\* C16: for every nested structure the extraction yields one Passage for each
\* valid row of the ResultRows arrays it reaches, skips the other rows, and
\* numbers the Passages 0, 1, ..., N-1 in traversal order, over one or several
\* arrays.
C16_PassagesOfReachedRows ==
    Extraiu =>
        /\ cb.etapa = "extraido"
        /\ \A i \in 1..Len(cb.rows) : cb.rows[i].id = i - 1
        /\ cb.rows = Passagens(Linhas(DadosJson, FALSE))

\* C17: the extraction takes the valid rows of every ResultRows array of the
\* structure, those under the keys that follow a ResultRows array in the same
\* dictionary included, and enters no matched array.
C17_EveryArrayExtracted ==
    (Extraiu /\ cb.etapa = "extraido") =>
        cb.rows = Passagens(Linhas(DadosJson, TRUE))

\* how many times the event e is in the log of the run
Vezes(e) == Cardinality({i \in 1..Len(log) : log[i] = e})

\* C18: in one run the term-extraction call, the portal request and the
\* analysis call are each issued at most once, whatever their outcome.
C18_NoRetry ==
    /\ Vezes("llm_termos") <= 1
    /\ Vezes("cb_requisicao") <= 1
    /\ Vezes("llm_analise") <= 1

\* a run that ended after the analysis call raised, with the three calls made
C18_Witness ==
    /\ pc = "exited"
    /\ Vezes("llm_termos") = 1 /\ Vezes("cb_requisicao") = 1 /\ Vezes("llm_analise") = 1
    /\ Logged("erro_analise")

\* the positions of the event e in the log
Posicoes(e) == {i \in 1..Len(log) : log[i] = e}

\* C19: a run that has issued the analysis call has had exactly one delay,
\* after the term-extraction call returned and before the analysis call was
\* issued; no run has a delay anywhere else.
C19_OneDelayBetweenCalls ==
    /\ Vezes("delay") <= 1
    /\ \A d \in Posicoes("delay") :
          /\ \E t \in Posicoes("llm_termos") : t < d
          /\ \A a \in Posicoes("llm_analise") : d < a
    /\ Logged("llm_analise") => Vezes("delay") = 1

\* a run that has issued both calls
C19_Witness ==
    /\ Logged("llm_termos") /\ Logged("llm_analise")
    /\ Vezes("delay") = 1

\* a step of the BuscaFaiss.py subprocess: from its start to its end
PassoDoRetriever == pc = "search" /\ ret.pc # "exited" /\ ret' # ret

\* C20: no step of a Retriever run, whatever its outcome, changes the index
\* file or the metadata file; ranks and distances stay in memory and in the
\* printed block.
C20_RetrieverLeavesFiles == [][PassoDoRetriever => (idx' = idx /\ meta' = meta)]_vars

\* a Retriever run that printed a ranked block and ended, the pair still on disk
C20_Witness ==
    /\ pc = "search" /\ ret.pc = "exited" /\ ret.code = 0
    /\ Len(ret.stdout) > 0 /\ ret.stdout[1].rank = 1
    /\ idx.st = "ok" /\ meta.st = "ok"

====
